---- MODULE Spec2Model ----
(***************************************************************************)
(* Model of static/app.js, the browser front end of the AI Code Rule       *)
(* Checker: the session id kept in the #sessionId field and localStorage,  *)
(* the chat transcript built by appendBubble, the /agent and /check calls  *)
(* made through postJson, and the result panel filled by                   *)
(* renderCheckResult.                                                      *)
(*                                                                         *)
(* A JavaScript string is a sequence of characters, each character a       *)
(* one-element token.  The backtick character is written BQ.               *)
(***************************************************************************)
EXTENDS Integers, Sequences, FiniteSets, TLC

VARIABLES
  sessionIdInput,   \* #sessionId .value
  storage,          \* localStorage: a function from keys to strings
  chatInput,        \* #chatInput .value
  chatLog,          \* #chatLog children: the bubbles, in order
  resultSummary,    \* #resultSummary .textContent
  violationsEl,     \* #violations children
  fixedCodeEl,      \* #fixedCode .textContent
  unifiedDiffEl,    \* #unifiedDiff .textContent
  calls,            \* the postJson calls made so far, in initiation order
  resolved,         \* ids of the calls whose await has resumed, in that order
  draft,            \* argument of the function under study (pure-function specs)
  returned          \* what the function under study last returned or raised

vars == <<sessionIdInput, storage, chatInput, chatLog, resultSummary,
          violationsEl, fixedCodeEl, unifiedDiffEl, calls, resolved, draft, returned>>

(***************************************************************************)
(* Characters and strings                                                  *)
(***************************************************************************)
SP == " "
NL == "\n"
BQ == "bq"

Fence == <<BQ, BQ, BQ>>

WhiteSpace == {SP, NL, "\t", "\r"}

UpperAlpha == <<"A","B","C","D","E","F","G","H","I","J","K","L","M",
                "N","O","P","Q","R","S","T","U","V","W","X","Y","Z">>
LowerAlpha == <<"a","b","c","d","e","f","g","h","i","j","k","l","m",
                "n","o","p","q","r","s","t","u","v","w","x","y","z">>
Digits == <<"0","1","2","3","4","5","6","7","8","9">>

Range(f) == {f[i] : i \in DOMAIN f}

\* the character class [a-zA-Z0-9_-]
IdentChars == Range(UpperAlpha) \cup Range(LowerAlpha) \cup Range(Digits) \cup {"_", "-"}

\* the character class [0-9a-f]
HexChars == Range(Digits) \cup {"a","b","c","d","e","f"}

\* all strings over alphabet of length at most n
RECURSIVE StrsOfLen(_, _)
StrsOfLen(alphabet, n) ==
  IF n = 0 THEN {<<>>}
  ELSE {Append(s, c) : s \in StrsOfLen(alphabet, n - 1), c \in alphabet}

StrsUpTo(alphabet, n) == UNION {StrsOfLen(alphabet, k) : k \in 0..n}

\* JavaScript evaluates an argument once, before the call.  The operators
\* below do the same where it matters: in {e(x) : x \in {a}} the expression a
\* is evaluated once and x is its value, and The(...) is that set's element.
The(S) == CHOOSE y \in S : TRUE

\* the concatenation of a sequence of strings (by halves)
RECURSIVE Concat(_)
Concat(strs) ==
  The({ IF ss = <<>> THEN <<>>
        ELSE IF Len(ss) = 1 THEN ss[1]
        ELSE Concat(SubSeq(ss, 1, Len(ss) \div 2))
             \o Concat(SubSeq(ss, (Len(ss) \div 2) + 1, Len(ss)))
        : ss \in {strs} })

MinOf(set) == The({ CHOOSE x \in S : \A y \in S : x <= y : S \in {set} })
MaxOf(set) == The({ CHOOSE x \in S : \A y \in S : x >= y : S \in {set} })

\* String.prototype.trim
Trim(str) ==
  The({ IF solid = {} THEN <<>> ELSE SubSeq(s, MinOf(solid), MaxOf(solid))
        : <<s, solid>> \in {<<t, {i \in DOMAIN t : t[i] \notin WhiteSpace}>> : t \in {str}} })

\* String.prototype.indexOf, 1-based; 0 when sep does not occur
IndexOf(str, sep) ==
  The({ IF hits = {} THEN 0 ELSE MinOf(hits)
        : hits \in {{i \in 1..(Len(s) - Len(sep) + 1) : SubSeq(s, i, i + Len(sep) - 1) = sep}
                     : s \in {str}} })

\* String.prototype.split with a non-empty separator
RECURSIVE Split(_, _)
Split(str, sep) ==
  The({ IF i = 0 THEN <<s>>
        ELSE <<SubSeq(s, 1, i - 1)>> \o Split(SubSeq(s, i + Len(sep), Len(s)), sep)
        : <<s, i>> \in {<<t, IndexOf(t, sep)>> : t \in {str}} })

\* Array.prototype.join
RECURSIVE JoinWith(_, _)
JoinWith(strs, sep) ==
  The({ IF parts = <<>> THEN <<>>
        ELSE IF Len(parts) = 1 THEN parts[1]
        ELSE parts[1] \o sep \o JoinWith(Tail(parts), sep)
        : parts \in {strs} })

\* String.prototype.toLowerCase
LowerChar(c) ==
  IF \E i \in DOMAIN UpperAlpha : UpperAlpha[i] = c
  THEN LowerAlpha[CHOOSE i \in DOMAIN UpperAlpha : UpperAlpha[i] = c]
  ELSE c

toLowerCase(str) == The({ [i \in DOMAIN s |-> LowerChar(s[i])] : s \in {str} })

\* escapeHtml: & < > " ' become entities
EscapeChar(c) ==
  CASE c = "&" -> <<"&","a","m","p",";">>
    [] c = "<" -> <<"&","l","t",";">>
    [] c = ">" -> <<"&","g","t",";">>
    [] c = "\"" -> <<"&","q","u","o","t",";">>
    [] c = "'" -> <<"&","#","3","9",";">>
    [] OTHER -> <<c>>

escapeHtml(str) == The({ Concat([i \in DOMAIN s |-> EscapeChar(s[i])]) : s \in {str} })

(***************************************************************************)
(* appendBubble: the message segmenter                                     *)
(***************************************************************************)
\* /^[a-zA-Z0-9_-]+$/.test(s)
IsLangTag(str) == \E s \in {str} : s # <<>> /\ \A i \in DOMAIN s : s[i] \in IdentChars

\* code.replace(/^\n+/, "")
StripLeadingNewlines(str) ==
  The({ IF solid = {} THEN <<>> ELSE SubSeq(s, MinOf(solid), Len(s))
        : <<s, solid>> \in {<<t, {i \in DOMAIN t : t[i] # NL}>> : t \in {str}} })

\* a code block that loses one leading newline only
CodeBody_StripsOneNewline(part) ==
  The({ The({ IF code # <<>> /\ code[1] = NL THEN Tail(code) ELSE code
              : code \in {JoinWith(IF Len(lines) > 0 /\ IsLangTag(Trim(lines[1]))
                                   THEN Tail(lines) ELSE lines, <<NL>>)} })
        : lines \in {Split(part, <<NL>>)} })

\* the <pre> text of an odd-indexed part
CodeBody(part) ==
  The({ StripLeadingNewlines(
          JoinWith(IF Len(lines) > 0 /\ IsLangTag(Trim(lines[1])) THEN Tail(lines) ELSE lines,
                   <<NL>>))
        : lines \in {Split(part, <<NL>>)} })

ProseChild(part) == The({ [tag |-> "div", html |-> escapeHtml(p), text |-> p] : p \in {part} })
CodeChild(part)  == [tag |-> "pre", html |-> <<>>, text |-> CodeBody(part)]

\* a forEach callback that also appends the blank parts outside the fences
RECURSIVE PartChildren_KeepsBlank(_, _)
PartChildren_KeepsBlank(parts, idx) ==
  The({ IF ps = <<>> THEN <<>>
        ELSE (IF idx % 2 = 0 THEN <<ProseChild(Head(ps))>> ELSE <<CodeChild(Head(ps))>>)
             \o PartChildren_KeepsBlank(Tail(ps), idx + 1)
        : ps \in {parts} })

\* the children appended to the bubble after its meta line
RECURSIVE PartChildren(_, _)
PartChildren(parts, idx) ==
  The({ IF ps = <<>> THEN <<>>
        ELSE (IF idx % 2 = 0
              THEN IF Len(Trim(Head(ps))) > 0 THEN <<ProseChild(Head(ps))>> ELSE <<>>
              ELSE <<CodeChild(Head(ps))>>)
             \o PartChildren(Tail(ps), idx + 1)
        : ps \in {parts} })

BubbleChildren(text) ==
  The({ IF Len(parts) = 1 THEN <<ProseChild(text)>> ELSE PartChildren(parts, 0)
        : parts \in {Split(text, Fence)} })

(***************************************************************************)
(* JavaScript values, as JSON.parse can produce them (plus undefined)      *)
(***************************************************************************)
Undefined == [t |-> "undefined"]
Null      == [t |-> "null"]
Bool(b)   == [t |-> "boolean", b |-> b]
Num(n)    == [t |-> "number", n |-> n]
Str(s)    == [t |-> "string", s |-> s]
Arr(xs)   == [t |-> "array", items |-> xs]
\* an object: its own properties in insertion order, each <<key, value>>
Obj(ps)   == [t |-> "object", props |-> ps]

IsString(v) == v.t = "string"
IsArray(v)  == v.t = "array"

\* ToBoolean
Truthy(v) ==
  CASE v.t = "undefined" -> FALSE
    [] v.t = "null"      -> FALSE
    [] v.t = "boolean"   -> v.b
    [] v.t = "number"    -> v.n # 0
    [] v.t = "string"    -> v.s # <<>>
    [] OTHER             -> TRUE

\* a || b
OrElse(a, b) == The({ IF Truthy(x) THEN x ELSE b : x \in {a} })

\* v.key raises a TypeError on null and undefined
PropThrows(v) == v.t \in {"null", "undefined"}

\* v.key for the keys the program reads (none of them is a property of a
\* primitive, a string or an array)
Prop(val, key) ==
  The({ IF v.t = "object" /\ \E i \in DOMAIN v.props : v.props[i][1] = key
        THEN v.props[CHOOSE i \in DOMAIN v.props : v.props[i][1] = key][2]
        ELSE Undefined
        : v \in {val} })

\* Number.prototype.toString(10) of an integer
RECURSIVE NatToStr(_)
NatToStr(n) == IF n < 10 THEN <<Digits[n + 1]>> ELSE NatToStr(n \div 10) \o <<Digits[(n % 10) + 1]>>

NumToStr(n) == IF n < 0 THEN <<"-">> \o NatToStr(0 - n) ELSE NatToStr(n)

\* String(v): what a template literal and the textContent setter do to v
RECURSIVE ToText(_)
ToText(val) ==
  The({ CASE v.t = "undefined" -> <<"u","n","d","e","f","i","n","e","d">>
          [] v.t = "null"      -> <<"n","u","l","l">>
          [] v.t = "boolean"   -> IF v.b THEN <<"t","r","u","e">> ELSE <<"f","a","l","s","e">>
          [] v.t = "number"    -> NumToStr(v.n)
          [] v.t = "string"    -> v.s
          [] v.t = "array"     ->
               JoinWith([i \in DOMAIN v.items |->
                           IF v.items[i].t \in {"null", "undefined"} THEN <<>>
                           ELSE ToText(v.items[i])], <<",">>)
          [] OTHER             -> <<"[","o","b","j","e","c","t"," ","O","b","j","e","c","t","]">>
        : v \in {val} })

\* the quoted form of a string in JSON text
JsonEscapeChar(c) ==
  CASE c = "\"" -> <<"\\", "\"">>
    [] c = "\\" -> <<"\\", "\\">>
    [] c = NL   -> <<"\\", "n">>
    [] c = "\t" -> <<"\\", "t">>
    [] c = "\r" -> <<"\\", "r">>
    [] OTHER    -> <<c>>

JsonQuote(str) ==
  The({ <<"\"">> \o Concat([i \in DOMAIN s |-> JsonEscapeChar(s[i])]) \o <<"\"">> : s \in {str} })

Spaces(n) == [i \in 1..n |-> SP]

\* JSON.stringify(v, null, indent) at nesting depth level; indent 0 is the
\* compact form JSON.stringify(v)
RECURSIVE Stringify(_, _, _)
Stringify(val, indent, level) ==
  The({ CASE v.t = "null"    -> <<"n","u","l","l">>
          [] v.t = "boolean" -> IF v.b THEN <<"t","r","u","e">> ELSE <<"f","a","l","s","e">>
          [] v.t = "number"  -> NumToStr(v.n)
          [] v.t = "string"  -> JsonQuote(v.s)
          [] v.t = "array"   ->
               IF v.items = <<>> THEN <<"[", "]">>
               ELSE <<"[">> \o open
                    \o JoinWith([i \in DOMAIN v.items |->
                                   Stringify(v.items[i], indent, level + 1)],
                                <<",">> \o open)
                    \o close \o <<"]">>
          [] OTHER ->
               IF v.props = <<>> THEN <<"{", "}">>
               ELSE <<"{">> \o open
                    \o JoinWith([i \in DOMAIN v.props |->
                                   JsonQuote(v.props[i][1]) \o colon
                                   \o Stringify(v.props[i][2], indent, level + 1)],
                                <<",">> \o open)
                    \o close \o <<"}">>
        : v \in {val},
          open \in {IF indent = 0 THEN <<>> ELSE <<NL>> \o Spaces(indent * (level + 1))},
          close \in {IF indent = 0 THEN <<>> ELSE <<NL>> \o Spaces(indent * level)},
          colon \in {IF indent = 0 THEN <<":">> ELSE <<":", SP>>} })

(***************************************************************************)
(* renderCheckResult: the check-result model                               *)
(***************************************************************************)
\* property names read by the program
K_summary      == <<"s","u","m","m","a","r","y">>
K_violations   == <<"v","i","o","l","a","t","i","o","n","s">>
K_fixed_code   == <<"f","i","x","e","d","_","c","o","d","e">>
K_unified_diff == <<"u","n","i","f","i","e","d","_","d","i","f","f">>
K_severity     == <<"s","e","v","e","r","i","t","y">>
K_start_line   == <<"s","t","a","r","t","_","l","i","n","e">>
K_end_line     == <<"e","n","d","_","l","i","n","e">>
K_title        == <<"t","i","t","l","e">>
K_rule_id      == <<"r","u","l","e","_","i","d">>
K_message      == <<"m","e","s","s","a","g","e">>
K_suggestion   == <<"s","u","g","g","e","s","t","i","o","n">>
K_output       == <<"o","u","t","p","u","t">>
K_raw          == <<"r","a","w">>

\* "(summary <U+C5C6><U+C74C>)"
NoSummaryText == <<"(","s","u","m","m","a","r","y",SP,"U+C5C6","U+C74C",")">>
\* the text of the muted line shown for an empty violation list
NoViolationsText == <<"U+C704","U+BC18","U+C774",SP,"U+C5C6","U+B2E4",".">>
WarningText == <<"w","a","r","n","i","n","g">>
RuleText == <<"R","U","L","E">>
\* the message of a TypeError raised by the engine (its wording is the
\* engine's; it is never empty)
TypeErrorText == <<"T","y","p","e","E","r","r","o","r">>

\* the line-range text of a violation
LineText(v) ==
  IF Truthy(Prop(v, K_start_line)) /\ Truthy(Prop(v, K_end_line))
  THEN ToText(Prop(v, K_start_line)) \o <<"~">> \o ToText(Prop(v, K_end_line))
  ELSE IF Truthy(Prop(v, K_start_line)) THEN ToText(Prop(v, K_start_line))
  ELSE <<"-">>

\* the values the body of the forEach callback hands to toLowerCase and
\* to escapeHtml; each call raises a TypeError unless its value is a string
SeverityArg(v)   == OrElse(Prop(v, K_severity), Str(WarningText))
TitleArg(v)      == OrElse(OrElse(Prop(v, K_title), Prop(v, K_rule_id)), Str(RuleText))
RuleIdArg(v)     == OrElse(Prop(v, K_rule_id), Str(<<>>))
MessageArg(v)    == OrElse(Prop(v, K_message), Str(<<>>))

\* whether the forEach callback raises on entry v
ViolationThrows(v) ==
  \/ PropThrows(v)
  \/ ~IsString(SeverityArg(v))
  \/ ~IsString(TitleArg(v))
  \/ ~IsString(RuleIdArg(v))
  \/ ~IsString(MessageArg(v))
  \/ (Truthy(Prop(v, K_suggestion)) /\ ~IsString(Prop(v, K_suggestion)))

\* the severity shown in the badge of entry v
DisplayedSeverity(v) == toLowerCase(SeverityArg(v).s)

\* the box appended for entry v (when the callback does not raise)
ViolationBox(v) ==
  [class   |-> "vio",
   title   |-> escapeHtml(TitleArg(v).s),
   rule_id |-> escapeHtml(RuleIdArg(v).s),
   line    |-> escapeHtml(LineText(v)),
   sev     |-> escapeHtml(DisplayedSeverity(v)),
   msg     |-> escapeHtml(MessageArg(v).s),
   suggest |-> IF Truthy(Prop(v, K_suggestion))
               THEN <<escapeHtml(Prop(v, K_suggestion).s)>> ELSE <<>>]

MutedBox == [class |-> "muted", text |-> NoViolationsText]

\* vios.forEach: the boxes appended before the first raise, and whether one
\* was raised
RECURSIVE ForEachViolation(_)
ForEachViolation(list) ==
  The({ IF vios = <<>> THEN [threw |-> FALSE, boxes |-> <<>>]
        ELSE IF ViolationThrows(Head(vios)) THEN [threw |-> TRUE, boxes |-> <<>>]
        ELSE The({ [threw |-> rest.threw,
                    boxes |-> <<ViolationBox(Head(vios))>> \o rest.boxes]
                   : rest \in {ForEachViolation(Tail(vios))} })
        : vios \in {list} })

\* the violation list the function iterates over
ViolationList(result) ==
  IF IsArray(Prop(result, K_violations)) THEN Prop(result, K_violations).items ELSE <<>>

\* renderCheckResult(result) on the panel `view`: the panel it leaves, and
\* whether it raised
renderCheckResult(result, view) ==
  IF PropThrows(result) THEN [threw |-> TRUE, view |-> view]
  ELSE
    The({ IF Len(vios) = 0
          THEN [threw |-> FALSE, view |-> [head EXCEPT !.violations = <<MutedBox>>]]
          ELSE The({ [threw |-> each.threw, view |-> [head EXCEPT !.violations = each.boxes]]
                     : each \in {ForEachViolation(vios)} })
          : head \in {[summary    |-> ToText(OrElse(Prop(result, K_summary), Str(NoSummaryText))),
                       violations |-> <<>>,
                       fixed      |-> ToText(OrElse(Prop(result, K_fixed_code), Str(<<>>))),
                       diff       |-> ToText(OrElse(Prop(result, K_unified_diff), Str(<<>>)))]},
            vios \in {ViolationList(result)} })

\* the result panel as one record
View == [summary |-> resultSummary, violations |-> violationsEl,
         fixed |-> fixedCodeEl, diff |-> unifiedDiffEl]

SetView(v) ==
  /\ resultSummary' = v.summary
  /\ violationsEl' = v.violations
  /\ fixedCodeEl' = v.fixed
  /\ unifiedDiffEl' = v.diff

(***************************************************************************)
(* Session identity: getSessionId, loadSessionId, the change handler       *)
(***************************************************************************)
STORAGE_KEY == "ai_code_rule_checker_session_id"

DemoPrefix == <<"d","e","m","o","-">>

Min(a, b) == IF a < b THEN a ELSE b

\* String.prototype.slice(from, to) with 0 <= from <= to
Slice(s, from, to) == SubSeq(s, from + 1, Min(to, Len(s)))

\* A value of Math.random() is written as the hexadecimal digits of its
\* fraction, without trailing zeros (the empty sequence is 0).
\* Number.prototype.toString(16) of such a value:
ToString16(r) == IF r = <<>> THEN <<"0">> ELSE <<"0", ".">> \o r

\* "demo-" + Math.random().toString(16).slice(2, 10)
SynthesizeId(r) == DemoPrefix \o Slice(ToString16(r), 2, 10)

\* localStorage.getItem(STORAGE_KEY): the stored string, or null
HasItem(store) == STORAGE_KEY \in DOMAIN store
SetItem(store, value) ==
  [k \in DOMAIN store \cup {STORAGE_KEY} |-> IF k = STORAGE_KEY THEN value ELSE store[k]]
NoItems == [k \in {} |-> <<>>]

\* a getSessionId that hands out the field as typed, untrimmed
getSessionId_Untrimmed(field, store, r) ==
  The({ [sid   |-> sid,
         field |-> IF Trim(field) = <<>> THEN sid ELSE field,
         store |-> SetItem(store, sid)]
        : sid \in {IF Trim(field) = <<>> THEN SynthesizeId(r) ELSE field} })

\* getSessionId() with Math.random() = r: the id returned, the field and
\* the store it leaves
getSessionId(field, store, r) ==
  The({ [sid   |-> sid,
         field |-> IF Trim(field) = <<>> THEN sid ELSE field,
         store |-> SetItem(store, sid)]
        : sid \in {IF Trim(field) = <<>> THEN SynthesizeId(r) ELSE Trim(field)} })

\* loadSessionId() with Math.random() = r: the field it leaves
loadSessionId(store, r) ==
  IF HasItem(store) /\ store[STORAGE_KEY] # <<>> THEN store[STORAGE_KEY]
  ELSE SynthesizeId(r)

\* a change handler that stores the field as typed, untrimmed
sessionIdChanged_Untrimmed(field, store) ==
  IF Trim(field) # <<>> THEN SetItem(store, field) ELSE store

\* the change handler of #sessionId, the field holding `field`: the store
\* it leaves
sessionIdChanged(field, store) ==
  IF Trim(field) # <<>> THEN SetItem(store, Trim(field)) ELSE store

(***************************************************************************)
(* postJson                                                                *)
(***************************************************************************)
HttpText == <<"H","T","T","P",SP>>
\* the message of the TypeError a rejected fetch carries (the engine's)
FetchErrorText == <<"F","a","i","l","e","d",SP,"t","o",SP,"f","e","t","c","h">>
Boom == <<"b","o","o","m">>

\* Response.ok
Ok(status) == status >= 200 /\ status <= 299

\* the decoded values the endpoints are made to answer with
SampleValues ==
  { Null,
    Obj(<< <<K_output, Str(<<"o","k">>)>> >>),
    Obj(<< <<K_output, Num(5)>> >>),
    Obj(<< <<K_summary, Str(<<"o","k">>)>>, <<K_violations, Arr(<<>>)>> >>),
    Obj(<< <<K_violations, Arr(<< Obj(<< <<K_severity, Num(2)>> >>) >>)>> >>) }

\* the response bodies: the JSON text of each sample value, text that is
\* not JSON, and the empty body
ResponseTexts == {Stringify(v, 0, 0) : v \in SampleValues} \cup {Boom, <<>>}

\* JSON.parse(text), on the response bodies: the value whose JSON text it is
JSONparse(text) ==
  IF \E v \in SampleValues : Stringify(v, 0, 0) = text
  THEN [ok |-> TRUE, value |-> CHOOSE v \in SampleValues : Stringify(v, 0, 0) = text]
  ELSE [ok |-> FALSE, value |-> Undefined]

Success(value, parsed) ==
  [kind |-> "Success", value |-> value, message |-> <<>>, parsed |-> parsed]
Failure(message, parsed) ==
  [kind |-> "Failure", value |-> Undefined, message |-> message, parsed |-> parsed]
NoOutcome == [kind |-> "none", value |-> Undefined, message |-> <<>>, parsed |-> FALSE]

\* a postJson that decodes the body whatever the status is
postJson_IgnoresStatus(status, text) ==
  The({ IF p.ok THEN Success(p.value, TRUE)
        ELSE Success(Obj(<< <<K_raw, Str(text)>> >>), TRUE)
        : p \in {JSONparse(text)} })

\* postJson after `await res.text()`: what it returns or throws
postJson(status, text) ==
  IF ~Ok(status)
  THEN Failure(IF text # <<>> THEN text ELSE HttpText \o NatToStr(status), FALSE)
  ELSE The({ IF p.ok THEN Success(p.value, TRUE)
             ELSE Success(Obj(<< <<K_raw, Str(text)>> >>), TRUE)
             : p \in {JSONparse(text)} })

(***************************************************************************)
(* The transcript                                                          *)
(***************************************************************************)
\* appendBubble(role, text, meta) on the transcript `log`.  A text that is
\* not a string raises at text.split, before anything is attached.  `tag`
\* is bookkeeping: the call the bubble was appended for and as what.
appendBubble(log, role, text, meta, tag) ==
  The({ IF ~IsString(t) THEN [threw |-> TRUE, log |-> log]
        ELSE [threw |-> FALSE,
              log   |-> Append(log, [role |-> role, meta |-> meta,
                                     children |-> BubbleChildren(t.s), tag |-> tag])]
        : t \in {text} })

NoTag == [call |-> 0, kind |-> "none"]

GuideText ==
  <<"U+C548","U+B0B4",":",NL,"-",SP,"U+ADDC","U+CE59","U+C744",SP,"U+BB3C",
    "U+C5B4","U+BCF4","U+BA74",SP,"U+ADDC","U+CE59","U+C744",SP,"U+C124",
    "U+BA85","U+D55C","U+B2E4",".",NL,"-",SP,"U+CF54","U+B4DC","U+B97C",SP,
    "U+BD99","U+C5EC","U+B123","U+C73C","U+BA74",SP,"U+ADDC","U+CE59",SP,
    "U+C704","U+BC18","U+C744",SP,"U+CC3E","U+ACE0",",",SP,"U+AC00",
    "U+B2A5","U+D55C",SP,"U+ACBD","U+C6B0",SP,"U+ACE0","U+CE5C","U+B2E4",
    ".",NL,NL,"U+C608","U+C2DC",SP,"U+C9C8","U+BB38",":",NL,"1",")",SP,
    "U+D300",SP,"U+B0B4",SP,"U+ADDC","U+CE59",SP,"U+C804","U+BD80",SP,
    "U+C54C","U+B824","U+C918",NL,"2",")",SP,"i","m","p","o","r","t",SP,
    "U+C21C","U+C11C",SP,"U+ADDC","U+CE59","U+C774",SP,"U+BB50","U+C57C",
    "?",NL,"3",")",SP,"U+C544","U+B798",SP,"U+CF54","U+B4DC","U+B97C",SP,
    "U+ADDC","U+CE59","U+C5D0",SP,"U+B9DE","U+AC8C",SP,"U+ACE0","U+CCD0",
    "U+C918",NL,BQ,BQ,BQ,"p","y","t","h","o","n",NL,"f","r","o","m",SP,"b",
    SP,"i","m","p","o","r","t",SP,"x",NL,"f","r","o","m",SP,"a",SP,"i","m",
    "p","o","r","t",SP,"y",NL,"p","r","i","n","t","(","1",")",NL,BQ,BQ,BQ>>

\* clearChat(): the transcript it leaves
clearChat == appendBubble(<<>>, "assistant", Str(GuideText), "now", NoTag).log

\* the text of the loading bubble
LoadingText == <<"U+C0DD","U+AC01",SP,"U+C911","U+2026">>
\* the prefix of every error message shown
ErrorPrefix == <<"U+C5D0","U+B7EC",":",SP>>
\* what runCheck shows for blank code, and while its call is out
NeedCodeText ==
  <<"U+CF54","U+B4DC","U+B97C",SP,"U+C785","U+B825","U+D574","U+C57C",SP,
    "U+D55C","U+B2E4",".">>
RunningText == <<"U+C2E4","U+D589",SP,"U+C911","U+2026">>

\* String(err.message || err) of an Error with this message
ErrorString(message) == IF message # <<>> THEN message ELSE <<"E","r","r","o","r">>

(***************************************************************************)
(* Bounds and the inputs the environment chooses from                      *)
(***************************************************************************)
\* at most this many postJson calls are made in one run
MaxCalls == 2
\* pasteResultToChat is not taken once the transcript holds this many bubbles
MaxLog == 2

\* what the user may have typed into #chatInput and #codeInput when the
\* handler runs: blank texts and others
ChatDrafts   == {<<>>, <<SP>>, <<"h","i">>}
CodeDrafts   == {<<>>, <<NL>>, <<"x">>}
\* what the user may change #sessionId to
SessionEdits == {<<>>, <<SP>>, <<SP,"s">>}

\* values of Math.random(): 0, 0.5 and 1 - 16^-9
RandomDraws == {<<>>, <<"8">>, <<"f","f","f","f","f","f","f","f","f">>}

\* what localStorage holds when the page is opened
InitialStores == {NoItems, SetItem(NoItems, <<"s">>)}

\* response status codes
Statuses == {200, 500}

\* the bodies a response of this status may carry
BodiesOf(status) ==
  IF Ok(status) THEN ResponseTexts
  ELSE {<<>>, Boom, Stringify(Obj(<< <<K_output, Str(<<"o","k">>)>> >>), 0, 0)}

(***************************************************************************)
(* The handlers                                                            *)
(*                                                                         *)
(* #codeInput, #autoFix and #includeDiff are written by the user alone;    *)
(* what they hold when a handler reads them is an input of the handler.    *)
(* So is what #chatInput holds when sendChat starts; sendChat empties it.  *)
(* setMode, focus() and scrollTop only change which panel is shown and     *)
(* where the focus and the scroll position are; no handler reads them      *)
(* back, and they are left out of the state.                               *)
(***************************************************************************)
K_session_id   == <<"s","e","s","s","i","o","n","_","i","d">>
K_input        == <<"i","n","p","u","t">>
K_debug        == <<"d","e","b","u","g">>
K_language     == <<"l","a","n","g","u","a","g","e">>
K_code         == <<"c","o","d","e">>
K_auto_fix     == <<"a","u","t","o","_","f","i","x">>
K_include_diff == <<"i","n","c","l","u","d","e","_","d","i","f","f">>
PythonText     == <<"p","y","t","h","o","n">>

\* a postJson call as fetch is entered: the request and no response yet
NewCall(url, data) ==
  [url |-> url, data |-> data, body |-> Stringify(data, 0, 0),
   state |-> "fetch", status |-> 0, read |-> FALSE, text |-> <<>>,
   outcome |-> NoOutcome, rendered |-> FALSE, appended |-> <<>>]

\* bookkeeping: as what the bubbles that turn transcript `before` into
\* `after` were appended
AppendedKinds(before, after) ==
  [k \in 1..(Len(after) - Len(before)) |-> after[Len(before) + k].tag.kind]

AgentData(sid, msg) ==
  Obj(<< <<K_session_id, Str(sid)>>, <<K_input, Str(msg)>>, <<K_debug, Bool(FALSE)>> >>)

CheckData(sid, code, fix, diff) ==
  Obj(<< <<K_session_id, Str(sid)>>, <<K_language, Str(PythonText)>>,
         <<K_code, Str(code)>>, <<K_auto_fix, Bool(fix)>>,
         <<K_include_diff, Bool(diff)>> >>)

\* the user commits an edit of #sessionId: the change handler runs
EditSessionId(v) ==
  /\ v # sessionIdInput
  /\ sessionIdInput' = v
  /\ storage' = sessionIdChanged(v, storage)
  /\ UNCHANGED <<chatInput, chatLog, resultSummary, violationsEl, fixedCodeEl,
                 unifiedDiffEl, calls, resolved, draft, returned>>

\* sendChat() with a blank msg in #chatInput: it returns at once
SendChatBlank(msg) ==
  /\ Trim(msg) = <<>>
  /\ chatInput' = msg
  /\ UNCHANGED <<sessionIdInput, storage, chatLog, resultSummary, violationsEl,
                 fixedCodeEl, unifiedDiffEl, calls, resolved, draft, returned>>

\* sendChat() up to its await, with msg in #chatInput and Math.random() = r
SendChat(msg, r) ==
  /\ Trim(msg) # <<>>
  /\ Len(calls) < MaxCalls
  /\ \E got \in {getSessionId(sessionIdInput, storage, r)} :
     \E user \in {appendBubble(chatLog, "user", Str(msg), "now",
                                [call |-> Len(calls) + 1, kind |-> "user"])} :
     \E load \in {appendBubble(user.log, "assistant", Str(LoadingText), "loading",
                                [call |-> Len(calls) + 1, kind |-> "loading"])} :
     \E data \in {AgentData(got.sid, msg)} :
        /\ sessionIdInput' = got.field
        /\ storage' = got.store
        /\ chatInput' = <<>>
        /\ chatLog' = load.log
        /\ calls' = Append(calls,
                       [NewCall("/agent", data)
                          EXCEPT !.appended = AppendedKinds(chatLog, load.log)])
  /\ UNCHANGED <<resultSummary, violationsEl, fixedCodeEl, unifiedDiffEl,
                 resolved, draft, returned>>

\* runCheck() with blank code in #codeInput
RunCheckBlank(code) ==
  /\ Trim(code) = <<>>
  /\ resultSummary' = NeedCodeText
  /\ UNCHANGED <<sessionIdInput, storage, chatInput, chatLog, violationsEl,
                 fixedCodeEl, unifiedDiffEl, calls, resolved, draft, returned>>

\* runCheck() up to its await, with code in #codeInput, the two checkboxes
\* as given and Math.random() = r
RunCheck(code, fix, diff, r) ==
  /\ Trim(code) # <<>>
  /\ Len(calls) < MaxCalls
  /\ \E got \in {getSessionId(sessionIdInput, storage, r)} :
     \E data \in {CheckData(got.sid, code, fix, diff)} :
        /\ sessionIdInput' = got.field
        /\ storage' = got.store
        /\ calls' = Append(calls, NewCall("/check", data))
  /\ SetView([summary |-> RunningText, violations |-> <<>>,
              fixed |-> <<>>, diff |-> <<>>])
  /\ UNCHANGED <<chatInput, chatLog, resolved, draft, returned>>

\* the Clear button
ClearChat ==
  /\ chatLog' = clearChat
  /\ UNCHANGED <<sessionIdInput, storage, chatInput, resultSummary, violationsEl,
                 fixedCodeEl, unifiedDiffEl, calls, resolved, draft, returned>>

PasteHeader ==
  <<"U+CF54","U+B4DC",SP,"U+AC80","U+C0AC",SP,"U+ACB0","U+ACFC",":",NL>>
FixedHeader ==
  <<NL,"f","i","x","e","d","_","c","o","d","e",":",NL,BQ,BQ,BQ,"p","y","t",
    "h","o","n",NL>>
DiffHeader == <<NL,"d","i","f","f",":",NL,BQ,BQ,BQ,"d","i","f","f",NL>>
BlockFooter == <<NL,BQ,BQ,BQ,NL>>

\* the message pasteResultToChat builds from the result panel
PasteMessage(summary, fixed, diff) ==
  PasteHeader \o summary \o <<NL>>
  \o (IF Trim(fixed) # <<>> THEN FixedHeader \o fixed \o BlockFooter ELSE <<>>)
  \o (IF Trim(diff) # <<>> THEN DiffHeader \o diff \o BlockFooter ELSE <<>>)

\* the To-chat button
PasteResultToChat ==
  /\ Len(chatLog) < MaxLog
  /\ chatLog' = appendBubble(chatLog, "assistant",
                   Str(PasteMessage(resultSummary, fixedCodeEl, unifiedDiffEl)),
                   "now", NoTag).log
  /\ UNCHANGED <<sessionIdInput, storage, chatInput, resultSummary, violationsEl,
                 fixedCodeEl, unifiedDiffEl, calls, resolved, draft, returned>>

(***************************************************************************)
(* The calls in flight and the code after each await                       *)
(***************************************************************************)
\* sendChat's try block from the point postJson returned `out`: the
\* transcript it leaves, and whether it raised
sendChatTry(log, out, tag) ==
  IF PropThrows(out) THEN [threw |-> TRUE, log |-> log]
  ELSE appendBubble(log, "assistant",
                    OrElse(Prop(out, K_output), Str(Stringify(out, 2, 0))), "now", tag)

\* a catch block that swallows the error and shows nothing
sendChatCatch_Silent(log, message, tag) == [threw |-> TRUE, log |-> log]

\* sendChat's catch block for an error with this message
sendChatCatch(log, message, tag) ==
  appendBubble(log, "assistant", Str(ErrorPrefix \o ErrorString(message)), "now", tag)

\* a sendChat that puts what it shows after the await on top of the
\* transcript instead of at its end
sendChatResume_OnTop(log, o, tag) ==
  The({ [log |-> <<r.log[Len(r.log)]>> \o SubSeq(r.log, 1, Len(r.log) - 1), shown |-> r.shown]
        : r \in {IF o.kind = "Failure"
                 THEN The({ [log |-> c.log, shown |-> ~c.threw]
                            : c \in {appendBubble(log, "assistant",
                                                  Str(ErrorPrefix \o ErrorString(o.message)),
                                                  "now", tag)} })
                 ELSE The({ IF ~t.threw THEN [log |-> t.log, shown |-> TRUE]
                            ELSE The({ [log |-> c.log, shown |-> ~c.threw]
                                       : c \in {appendBubble(t.log, "assistant",
                                                             Str(ErrorPrefix \o TypeErrorText),
                                                             "now", tag)} })
                            : t \in {sendChatTry(log, o.value, tag)} })} })

\* sendChat from its await on, postJson having ended with `o`: the transcript
\* it leaves and whether a bubble was attached
sendChatResume(log, o, tag) ==
  IF o.kind = "Failure"
  THEN The({ [log |-> c.log, shown |-> ~c.threw] : c \in {sendChatCatch(log, o.message, tag)} })
  ELSE The({ IF ~t.threw THEN [log |-> t.log, shown |-> TRUE]
             ELSE The({ [log |-> c.log, shown |-> ~c.threw]
                        : c \in {sendChatCatch(t.log, TypeErrorText, tag)} })
             : t \in {sendChatTry(log, o.value, tag)} })

\* runCheck's catch block for an error with this message
runCheckCatch(view, message) ==
  [view |-> [view EXCEPT !.summary = ErrorPrefix \o ErrorString(message)],
   shown |-> TRUE]

\* runCheck from its await on, postJson having ended with `o`: the panel it
\* leaves and whether the summary was set
runCheckResume(view, o) ==
  IF o.kind = "Failure" THEN runCheckCatch(view, o.message)
  ELSE The({ IF ~t.threw THEN [view |-> t.view, shown |-> TRUE]
             ELSE runCheckCatch(t.view, TypeErrorText)
             : t \in {renderCheckResult(o.value, view)} })

\* call i ends with outcome o and its caller runs to completion; `read` says
\* whether the body was read, and `text` is the body then
Settle(i, read, text, o) ==
  /\ resolved' = Append(resolved, i)
  /\ IF calls[i].url = "/agent"
     THEN \E r \in {sendChatResume(chatLog, o, [call |-> i, kind |-> "result"])} :
             /\ chatLog' = r.log
             /\ calls' = [calls EXCEPT ![i].state = "done", ![i].read = read,
                                       ![i].text = text, ![i].outcome = o,
                                       ![i].rendered = r.shown,
                                       ![i].appended = @ \o AppendedKinds(chatLog, r.log)]
             /\ UNCHANGED <<resultSummary, violationsEl, fixedCodeEl, unifiedDiffEl>>
     ELSE \E r \in {runCheckResume(View, o)} :
             /\ SetView(r.view)
             /\ calls' = [calls EXCEPT ![i].state = "done", ![i].read = read,
                                       ![i].text = text, ![i].outcome = o,
                                       ![i].rendered = r.shown]
             /\ UNCHANGED chatLog
  /\ UNCHANGED <<sessionIdInput, storage, chatInput, draft, returned>>

\* fetch rejects: the request could not be issued or got no response
FetchRejects(i) ==
  /\ i \in DOMAIN calls
  /\ calls[i].state = "fetch"
  /\ Settle(i, FALSE, <<>>, Failure(FetchErrorText, FALSE))

\* fetch resolves with a response of this status; postJson awaits its text
FetchResponds(i, status) ==
  /\ i \in DOMAIN calls
  /\ calls[i].state = "fetch"
  /\ calls' = [calls EXCEPT ![i].state = "text", ![i].status = status]
  /\ UNCHANGED <<sessionIdInput, storage, chatInput, chatLog, resultSummary,
                 violationsEl, fixedCodeEl, unifiedDiffEl, resolved, draft, returned>>

\* res.text() resolves with the whole body
TextArrives(i, text) ==
  /\ i \in DOMAIN calls
  /\ calls[i].state = "text"
  /\ text \in BodiesOf(calls[i].status)
  /\ \E o \in {postJson(calls[i].status, text)} : Settle(i, TRUE, text, o)

\* res.text() rejects: the connection broke while the body was read
TextRejects(i) ==
  /\ i \in DOMAIN calls
  /\ calls[i].state = "text"
  /\ Settle(i, FALSE, <<>>, Failure(FetchErrorText, FALSE))

\* the network acts on call i
Network(i) ==
  \/ FetchRejects(i)
  \/ \E status \in Statuses : FetchResponds(i, status)
  \/ \E text \in ResponseTexts : TextArrives(i, text)
  \/ TextRejects(i)

(***************************************************************************)
(* The program                                                             *)
(***************************************************************************)
\* the page as the script's last three lines leave it:
\* loadSessionId(); clearChat(); setMode("chat")
PageOpened ==
  /\ storage \in InitialStores
  /\ \E r \in RandomDraws : sessionIdInput = loadSessionId(storage, r)
  /\ chatInput = <<>>
  /\ chatLog = clearChat
  /\ resultSummary = <<>>
  /\ violationsEl = <<>>
  /\ fixedCodeEl = <<>>
  /\ unifiedDiffEl = <<>>
  /\ calls = <<>>
  /\ resolved = <<>>

Init ==
  /\ PageOpened
  /\ draft = <<>>
  /\ returned = <<>>

\* The chat and the checks: the user sends messages, runs checks, clears the
\* transcript and pastes results while the calls are answered.  The session
\* id and the checkboxes are left as the page was opened.
Next ==
  \/ \E msg \in ChatDrafts : SendChatBlank(msg)
  \/ \E msg \in ChatDrafts, r \in RandomDraws : SendChat(msg, r)
  \/ \E code \in CodeDrafts : RunCheckBlank(code)
  \/ \E code \in CodeDrafts, r \in RandomDraws : RunCheck(code, FALSE, FALSE, r)
  \/ ClearChat
  \/ PasteResultToChat
  \/ \E i \in 1..MaxCalls : Network(i)

Spec == Init /\ [][Next]_vars

\* The same without the handlers' early returns on blank input, which make
\* no call.  A fetch and the reading of a body end, one way or the other,
\* and the code after the await then runs: the network's steps on a call are
\* weakly fair.  Nothing obliges the user to act.
LiveNext ==
  \/ \E msg \in ChatDrafts, r \in RandomDraws : SendChat(msg, r)
  \/ \E code \in CodeDrafts, r \in RandomDraws : RunCheck(code, FALSE, FALSE, r)
  \/ ClearChat
  \/ PasteResultToChat
  \/ \E i \in 1..MaxCalls : Network(i)

LiveSpec == Init /\ [][LiveNext]_vars /\ \A i \in 1..MaxCalls : WF_vars(Network(i))

\* The session identity: the user edits #sessionId, sets the checkboxes,
\* sends messages and runs checks.  The responses, which touch neither the
\* field nor the store nor a request already made, are left pending.
SessNext ==
  \/ \E v \in SessionEdits : EditSessionId(v)
  \/ \E msg \in ChatDrafts : SendChatBlank(msg)
  \/ \E msg \in ChatDrafts, r \in RandomDraws : SendChat(msg, r)
  \/ \E code \in CodeDrafts : RunCheckBlank(code)
  \/ \E code \in CodeDrafts, fix, diff \in BOOLEAN, r \in RandomDraws :
        RunCheck(code, fix, diff, r)

SessSpec == Init /\ [][SessNext]_vars

(***************************************************************************)
(* renderCheckResult on the values a response can decode to                *)
(***************************************************************************)
\* a violation list holds at most this many entries
MaxViolations == 2

\* what an entry may carry as its severity
RawSeverities ==
  { Str(<<"e","r","r","o","r">>), Str(<<"E","R","R","O","R">>), Str(<<"I","n","f","o">>),
    Str(WarningText), Str(<<"c","r","i","t","i","c","a","l">>), Str(<<>>),
    Null, Num(0), Num(2), Bool(TRUE) }

\* the entries of a violation list: objects with and without a severity,
\* with the other fields, with fields of the wrong type, and values that are
\* not objects
RawEntries ==
  {Obj(<<>>)} \cup {Obj(<< <<K_severity, sev>> >>) : sev \in RawSeverities}
  \cup { Obj(<< <<K_rule_id, Str(<<"R","1">>)>>, <<K_message, Str(<<"m">>)>>,
               <<K_suggestion, Str(<<"s">>)>>, <<K_start_line, Num(3)>>,
               <<K_end_line, Num(5)>> >>),
         Obj(<< <<K_title, Num(1)>> >>),
         Obj(<< <<K_suggestion, Num(1)>> >>),
         Null, Num(1), Str(<<"x">>) }

RawLists == UNION {[1..n -> RawEntries] : n \in 0..MaxViolations}

\* an object of the given properties, the absent ones (<<>>) left out
ObjOf(ps) == Obj(SelectSeq(ps, LAMBDA pr : pr # <<>>))

\* the decoded values handed to renderCheckResult
RawResults ==
  { ObjOf(<<summary, violations, fixed>>) :
      summary \in {<<>>, <<K_summary, Str(<<"o","k">>)>>, <<K_summary, Num(7)>>},
      violations \in {<<>>, <<K_violations, Str(<<"n","o">>)>>}
                     \cup {<<K_violations, Arr(list)>> : list \in RawLists},
      fixed \in {<<>>, <<K_fixed_code, Str(<<"x">>)>>} }
  \cup {Null, Num(5), Str(<<"x">>), Arr(<<>>), Bool(FALSE)}

\* a response has decoded to `draft`
NormInit ==
  /\ PageOpened
  /\ draft \in RawResults
  /\ returned = <<>>

\* renderCheckResult(draft); `returned` records how the call ended
RenderCheckResult ==
  /\ returned = <<>>
  /\ \E t \in {renderCheckResult(draft, View)} :
        /\ SetView(t.view)
        /\ returned' = <<[threw |-> t.threw]>>
  /\ UNCHANGED <<sessionIdInput, storage, chatInput, chatLog, calls, resolved, draft>>

NormNext == RenderCheckResult

NormSpec == NormInit /\ [][NormNext]_vars

\* the boxes of class "vio" in the violations panel
VioBoxes == SelectSeq(violationsEl, LAMBDA box : box.class = "vio")

\* C3: renderCheckResult is total.  For every decoded value it completes
\* without raising, a missing summary is shown as the placeholder, a missing
\* or non-list violations field shows no violation, and an absent fixed_code
\* and unified_diff are shown as the empty string.
C3_NormalizeIsTotal ==
  returned # <<>> =>
    /\ ~returned[1].threw
    /\ Prop(draft, K_summary) = Undefined => resultSummary = NoSummaryText
    /\ ~IsArray(Prop(draft, K_violations)) => VioBoxes = <<>>
    /\ Prop(draft, K_fixed_code) = Undefined => fixedCodeEl = <<>>
    /\ Prop(draft, K_unified_diff) = Undefined => unifiedDiffEl = <<>>

RecognizedSeverities == {<<"i","n","f","o">>, WarningText, <<"e","r","r","o","r">>}

\* the severity the claim has entry v displayed with
ClaimedSeverity(v) ==
  IF IsString(Prop(v, K_severity)) /\ toLowerCase(Prop(v, K_severity).s) \in RecognizedSeverities
  THEN toLowerCase(Prop(v, K_severity).s)
  ELSE WarningText

\* C8: every violation entry that is displayed is displayed with its raw
\* severity in lower case when that is info, warning or error, and with
\* "warning" when the raw severity is absent or anything else.
C8_SeverityRecognizedOrWarning ==
  returned # <<>> =>
    \A k \in DOMAIN VioBoxes : VioBoxes[k].sev = ClaimedSeverity(ViolationList(draft)[k])

(***************************************************************************)
(* appendBubble on the texts a message can be                              *)
(***************************************************************************)
\* the text between two fences holds at most MaxInner characters
MaxInner == 3

\* a letter, a blank, a line break, a backtick
TextChars == {"a", SP, NL, BQ}

\* what stands before the first fence and after the second: nothing, one
\* character, and texts that start or end with backticks
OuterTexts ==
  StrsUpTo(TextChars, 1) \cup {<<"a", BQ>>, <<BQ, BQ>>, <<BQ, "a">>}

\* the texts appended: two fences with anything between them, and texts of
\* one fence or none
Texts ==
  { before \o Fence \o inner \o Fence \o after :
      before \in OuterTexts, inner \in StrsUpTo(TextChars, MaxInner), after \in OuterTexts }
  \cup StrsUpTo(TextChars, MaxInner)

\* a message with the text `draft` is about to be appended
SegInit ==
  /\ PageOpened
  /\ draft \in Texts
  /\ returned = <<>>

\* the <div> and <pre> children of a bubble as segments: prose or code, and
\* the text
Segments(children) ==
  [k \in DOMAIN children |->
     [type |-> IF children[k].tag = "pre" THEN "code" ELSE "prose",
      text |-> children[k].text]]

\* appendBubble("assistant", draft); `returned` records the segments of the
\* bubble appended
AppendDraft ==
  /\ returned = <<>>
  /\ \E b \in {appendBubble(chatLog, "assistant", Str(draft), "now", NoTag)} :
        /\ chatLog' = b.log
        /\ returned' = <<Segments(b.log[Len(b.log)].children)>>
  /\ UNCHANGED <<sessionIdInput, storage, chatInput, resultSummary, violationsEl,
                 fixedCodeEl, unifiedDiffEl, calls, resolved, draft>>

SegNext == AppendDraft

SegSpec == SegInit /\ [][SegNext]_vars

HasFence(str) == IndexOf(str, Fence) # 0
IsBlank(str) == Trim(str) = <<>>
EndsWithBackquote(str) == str # <<>> /\ str[Len(str)] = BQ

\* the ways to read text as before + fence + lang + newline + code + fence +
\* after, with lang an identifier and no fence in before, code and after
Readings(text) ==
  { r \in { [before |-> SubSeq(text, 1, a),
             open   |-> SubSeq(text, a + 1, a + 3),
             lang   |-> SubSeq(text, a + 4, a + 3 + b),
             break  |-> SubSeq(text, a + 4 + b, a + 4 + b),
             code   |-> SubSeq(text, a + 5 + b, a + 4 + b + c),
             close  |-> SubSeq(text, a + 5 + b + c, a + 7 + b + c),
             after  |-> SubSeq(text, a + 8 + b + c, Len(text))] :
             <<a, b, c>> \in {t \in (0..Len(text)) \X (1..Len(text)) \X (0..Len(text)) :
                                t[1] + t[2] + t[3] + 7 <= Len(text)} } :
      /\ r.open = Fence /\ r.break = <<NL>> /\ r.close = Fence
      /\ IsLangTag(r.lang)
      /\ ~HasFence(r.before) /\ ~HasFence(r.code) /\ ~HasFence(r.after) }

\* the segments the claim expects of a reading
Expected(r) ==
  (IF IsBlank(r.before) THEN <<>> ELSE <<[type |-> "prose", text |-> r.before]>>)
  \o <<[type |-> "code", text |-> StripLeadingNewlines(r.code)]>>
  \o (IF IsBlank(r.after) THEN <<>> ELSE <<[type |-> "prose", text |-> r.after]>>)

\* C7 as claimed: for every text A + fence + lang + newline + code + fence +
\* B with lang an identifier and no fence in A, B and code, the segments are
\* prose A unless A is blank, one code segment holding code without its
\* leading newlines, and prose B unless B is blank.
C7_FencedBlockSegments ==
  returned # <<>> => \A r \in Readings(draft) : returned[1] = Expected(r)

\* C7 amended: the same for the texts in which, besides, neither A nor code
\* ends with a backtick.
C7_FencedBlockSegmentsNoBackquoteBeforeFence ==
  returned # <<>> =>
    \A r \in Readings(draft) :
      (~EndsWithBackquote(r.before) /\ ~EndsWithBackquote(r.code))
        => returned[1] = Expected(r)

\* C7 witness: prose, a tagged block whose code starts with a newline, prose
C7_Witness ==
  /\ draft = <<"a">> \o Fence \o <<"a", NL, NL>> \o Fence \o <<"a">>
  /\ returned = << << [type |-> "prose", text |-> <<"a">>],
                      [type |-> "code", text |-> <<>>],
                      [type |-> "prose", text |-> <<"a">>] >> >>

\* the number of fences split finds in text
FenceCount(text) == Len(Split(text, Fence)) - 1

\* the segments joined back into a text, fences around each code body
RECURSIVE Join(_)
Join(segs) ==
  IF segs = <<>> THEN <<>>
  ELSE (IF Head(segs).type = "code" THEN Fence \o Head(segs).text \o Fence
        ELSE Head(segs).text)
       \o Join(Tail(segs))

\* same length, same types in the same order, same code bodies
Equivalent(a, b) ==
  /\ Len(a) = Len(b)
  /\ \A k \in DOMAIN a :
       /\ a[k].type = b[k].type
       /\ a[k].type = "code" => a[k].text = b[k].text

\* the first line of a code body, trimmed, is an identifier
FirstLineIsIdentifier(body) == IsLangTag(Trim(Split(body, <<NL>>)[1]))

\* C9 as claimed: the segments of a text with an even number of fences,
\* joined back and segmented again, are equivalent to themselves, also when
\* a code body starts with a line that is an identifier.
C9_RoundTrip ==
  (returned # <<>> /\ FenceCount(draft) % 2 = 0)
    => Equivalent(Segments(BubbleChildren(Join(returned[1]))), returned[1])

\* C9 amended: the same for the segment sequences in which no code body
\* starts with a line that, trimmed, is an identifier.
C9_RoundTripNoIdentifierLine ==
  (/\ returned # <<>>
   /\ FenceCount(draft) % 2 = 0
   /\ \A k \in DOMAIN returned[1] :
        returned[1][k].type = "code" => ~FirstLineIsIdentifier(returned[1][k].text))
    => Equivalent(Segments(BubbleChildren(Join(returned[1]))), returned[1])

\* C9 witness: prose and a code body of two words, which the round trip
\* gives back
C9_Witness ==
  /\ draft = <<"a">> \o Fence \o <<"a", SP, "a">> \o Fence
  /\ returned = << << [type |-> "prose", text |-> <<"a">>],
                      [type |-> "code", text |-> <<"a", SP, "a">>] >> >>
  /\ Segments(BubbleChildren(Join(returned[1]))) = returned[1]

(***************************************************************************)
(* Properties of the session identity                                      *)
(***************************************************************************)
\* the session_id of the request of call i
RequestSessionId(i) == Prop(calls[i].data, K_session_id)

\* ^demo-[0-9a-f]{8}$
MatchesDemoPattern(sid) ==
  /\ Len(sid) = Len(DemoPrefix) + 8
  /\ SubSeq(sid, 1, Len(DemoPrefix)) = DemoPrefix
  /\ \A k \in (Len(DemoPrefix) + 1)..Len(sid) : sid[k] \in HexChars

\* this step is sendChat or runCheck getting past its guard: getSessionId()
\* has run and a request was made
GetStep == Len(calls') = Len(calls) + 1
\* the id getSessionId() returned in this step
GotId == Prop(calls'[Len(calls')].data, K_session_id).s
\* this step is getSessionId() synthesizing an id
SynthStep == GetStep /\ Trim(sessionIdInput) = <<>>
\* this step is the user changing #sessionId
EditStep == calls' = calls /\ sessionIdInput' # sessionIdInput

\* C1: the session_id of every request made to /agent or /check is a
\* non-empty string without leading or trailing white space.
C1_SessionIdTrimmedNonEmpty ==
  \A i \in DOMAIN calls :
    /\ IsString(RequestSessionId(i))
    /\ RequestSessionId(i).s # <<>>
    /\ Trim(RequestSessionId(i).s) = RequestSessionId(i).s

\* C1 witness: a request made with the stored id, then, after the field was
\* blanked, a check made with a synthesized id
C1_Witness ==
  /\ Len(calls) = 2
  /\ calls[1].url = "/agent" /\ RequestSessionId(1).s = <<"s">>
  /\ calls[2].url = "/check" /\ RequestSessionId(2).s = SynthesizeId(<<"8">>)

\* C5: with nothing stored and a blank field, getSessionId() returns a string
\* matching ^demo-[0-9a-f]{8}$, whatever Math.random() gives; and while the
\* field still holds what a getSessionId() call returned, the next call
\* returns that same id.
C5_SynthesizedIdMatchesPattern ==
  [][ /\ (SynthStep /\ ~HasItem(storage)) => MatchesDemoPattern(GotId)
      /\ (GetStep /\ Len(calls) >= 1 /\ sessionIdInput = RequestSessionId(Len(calls)).s)
           => GotId = RequestSessionId(Len(calls)).s ]_vars

Done(i) == calls[i].state = "done"

\* "HTTP " + res.status
HttpStatusText(status) == HttpText \o NatToStr(status)

\* C2: a call whose response has a non-success status ends as a Failure
\* whose message is the response body when that is non-empty and
\* "HTTP <status>" when it is empty, and the body is never JSON-decoded.
C2_NonSuccessIsFailure ==
  \A i \in DOMAIN calls :
    (Done(i) /\ calls[i].read /\ ~Ok(calls[i].status))
      => /\ calls[i].outcome.kind = "Failure"
         /\ calls[i].outcome.message =
              (IF calls[i].text # <<>> THEN calls[i].text
               ELSE HttpStatusText(calls[i].status))
         /\ ~calls[i].outcome.parsed

\* C2 witness: a /check call answered 500 with an empty body, shown as
\* "HTTP 500", and an /agent call answered 500 with a body that is JSON
C2_Witness ==
  /\ Len(calls) = 2
  /\ calls[1].url = "/check" /\ Done(1) /\ calls[1].read
  /\ calls[1].status = 500 /\ calls[1].text = <<>>
  /\ calls[1].outcome.message = <<"H","T","T","P",SP,"5","0","0">>
  /\ calls[2].url = "/agent" /\ Done(2) /\ calls[2].read /\ calls[2].status = 500
  /\ calls[2].text = Stringify(Obj(<< <<K_output, Str(<<"o","k">>)>> >>), 0, 0)
  /\ calls[2].outcome.kind = "Failure"

\* the calls made by sendChat
Sends == {i \in DOMAIN calls : calls[i].url = "/agent"}

\* the positions in the transcript of the bubbles appended for call i as kind
Positions(i, kind) ==
  {p \in DOMAIN chatLog : chatLog[p].tag.call = i /\ chatLog[p].tag.kind = kind}

IsSuffix(a, b) == Len(a) <= Len(b) /\ SubSeq(b, Len(b) - Len(a) + 1, Len(b)) = a

IsResultBubble(b) == b.tag.kind = "result"
IsSend(i) == calls[i].url = "/agent"

\* the sends whose result bubbles the transcript holds, in transcript order
ResultOrder ==
  LET rs == SelectSeq(chatLog, IsResultBubble) IN [k \in DOMAIN rs |-> rs[k].tag.call]

\* the sends in the order their calls resolved
ResolutionOrder == SelectSeq(resolved, IsSend)

\* C10: sends are neither cancelled nor serialized.  Each send past the
\* guard has appended its user bubble, then its loading bubble, and, once
\* its own call has resolved and not before, exactly one result bubble; the
\* result bubbles stand in the transcript in the order the calls resolved
\* (Clear removing the earliest ones), each after its send's own user and
\* loading bubbles.
C10_ResultsInResolutionOrder ==
  /\ \A i \in Sends :
       /\ calls[i].appended = IF Done(i) THEN <<"user", "loading", "result">>
                              ELSE <<"user", "loading">>
       /\ Cardinality(Positions(i, "result")) <= 1
       /\ \A u \in Positions(i, "user"), l \in Positions(i, "loading") : u < l
       /\ \A l \in Positions(i, "loading"), r \in Positions(i, "result") : l < r
       /\ (Positions(i, "result") # {}) => Done(i)
  /\ IsSuffix(ResultOrder, ResolutionOrder)

\* C10 witness: two overlapping sends, the second resolved first, so that
\* its result bubble stands before the first one's
C10_Witness ==
  /\ Sends = {1, 2}
  /\ resolved = <<2, 1>>
  /\ ResultOrder = <<2, 1>>
  /\ [p \in DOMAIN chatLog |-> chatLog[p].tag.kind] =
       <<"none", "user", "loading", "user", "loading", "result", "result">>

\* C4: no failure is fatal.  Every call made by a send or a check that got
\* past the blank-input guard ends, however the network ends it, with a
\* message shown (a bubble for a send, the summary for a check); and as long
\* as the bound on calls is not reached a further send and a further check
\* are accepted.
C4_EveryCallEndsRendered ==
  /\ \A i \in 1..MaxCalls :
       [](i \in DOMAIN calls => <>(i \in DOMAIN calls /\ Done(i) /\ calls[i].rendered))
  /\ [](Len(calls) < MaxCalls =>
          /\ ENABLED SendChat(<<"h","i">>, <<>>)
          /\ ENABLED RunCheck(<<"x">>, FALSE, FALSE, <<>>))

\* C4 witness: a send whose call failed with a non-success status, shown as
\* an error bubble, followed by a check made afterwards whose answer decoded
\* to null and which ended with the summary set
C4_Witness ==
  /\ Len(calls) = 2
  /\ calls[1].url = "/agent" /\ Done(1) /\ calls[1].outcome.kind = "Failure"
  /\ calls[1].rendered
  /\ calls[2].url = "/check" /\ Done(2) /\ calls[2].outcome.value = Null
  /\ calls[2].rendered
  /\ resultSummary = ErrorPrefix \o TypeErrorText

====
